---- MODULE Spec2Model ----
(***************************************************************************)
(* Model of the goroutine demos of package goroutines                      *)
(* (src/unnamed/part_000): fanout_fetch, its per-url workers running       *)
(* fan_in_out_fetch, the fan-in goroutine, and the consumer                *)
(* FanOutFanInWithContext with its timeout context.                        *)
(*                                                                         *)
(* Channels resultCh and out are unbuffered: a send and its receive are    *)
(* one rendezvous step.  A Go select with several ready cases picks any    *)
(* of them, so every ready case is an enabled action.                      *)
(***************************************************************************)
EXTENDS Integers, Sequences, FiniteSets, TLC

\* Longest url list explored.
MaxUrls == 2

\* rand.Intn(5): the delay in seconds is one of 0..4.
RandN == 5

\* The urls the lists are built from (FanOutFanInWithContext's list starts with these).
UrlSet == {"a.com", "b.com"}

\* The url lists fanout_fetch is called with.
UrlLists == UNION {[1..n -> UrlSet] : n \in 0..MaxUrls}

\* The value of a channel variable that holds nothing.
NoMsg == [w |-> 0, data |-> ""]

VARIABLES
    urls,       \* fanout_fetch's argument urls
    ctxDone,    \* ctx.Done() is closed
    ctxErr,     \* ctx.Err(): "nil", "Canceled" or "DeadlineExceeded"
    mainPc,     \* the consumer FanOutFanInWithContext: "range", "deferred", "finished"
    faninPc,    \* the goroutine of fanout_fetch: "fanout", "select", "sendout", "returned"
    spawned,    \* urls the FAN-OUT loop has gone through
    i,          \* the FAN-IN loop's counter
    result,     \* the value the fan-in goroutine holds at out <- result
    wpc,        \* per worker: "none", "start", "fetch", "send", "done", "exited"
    timer,      \* per worker, time.After(delay): "none", "pending", "fired"
    outClosed,  \* out has been closed
    closeCount, \* number of close(out) executed
    delivered,  \* what the consumer has received from out, in order
    returnedBy, \* how the fan-in goroutine returned: "none", "loopEnd", "ctxDone"
    startedAfterCancel, \* per worker: fan_in_out_fetch was invoked with ctx already done
    fetchedBeforeCancel \* per worker: fan_in_out_fetch returned data while ctx was not done

VARIABLES
    demo,       \* the function of the package that is running
    wgCounter,  \* the counter of the demo's sync.WaitGroup
    wgAdds,     \* number of wg.Add(1) executed
    wgMainPc,   \* the demo function: "add", "go", "produce", "close", "cancel", "wait",
                \* "sleep", "done"
    wgW,        \* the goroutines the demo started, in order: [pc, dones, job, iters, observed]
    jobsBuf,    \* the buffer of the channel jobs
    jobsClosed, \* jobs has been closed
    jobsSent,   \* jobs the producer loop has sent
    takenBy,    \* per job: the workers that received it from jobs, in order
    finishedBy, \* per job: the workers that printed "finished job", in order
    wgCtxDone,  \* the demo's ctx.Done() is closed
    wgCtxErr,   \* the demo's ctx.Err()
    calls,      \* the calls of fetch_data / fan_in_out_fetch under way, one record each
    auth        \* the request a controller (Login, SignUp) is handling

\* The state of fanout_fetch and FanOutFanInWithContext.
fanVars == <<urls, ctxDone, ctxErr, mainPc, faninPc, spawned, i, result, wpc, timer,
             outClosed, closeCount, delivered, returnedBy, startedAfterCancel,
             fetchedBeforeCancel>>

\* The state of the WaitGroup and polling demos.
wgVars == <<wgCounter, wgAdds, wgMainPc, wgW, jobsBuf, jobsClosed, jobsSent, takenBy,
            finishedBy, wgCtxDone, wgCtxErr>>

vars == <<demo, fanVars, wgVars, calls, auth>>

\* What a step of fanout_fetch and FanOutFanInWithContext leaves alone.
notFan == <<demo, wgVars, calls, auth>>

\* What a step of the WaitGroup and polling demos leaves alone.
notWg == <<demo, fanVars, calls, auth>>

\* What a step of a call of fetch_data or fan_in_out_fetch leaves alone.
notCalls == <<demo, fanVars, wgVars, auth>>

\* What a step of a controller leaves alone.
notAuth == <<demo, fanVars, wgVars, calls>>

\* len(urls)
N == Len(urls)

\* The workers: one goroutine per url, named by the url's position.
Workers == 1..N

\* "Data from " + url
FetchData(url) == "Data from " \o url

\* The FAN-IN loop's bound, len(urls).
LoopBound_offByOne == Len(urls) - 1
LoopBound == Len(urls)

\* Where the goroutine of fanout_fetch stands after k urls of the FAN-OUT loop.
AfterSpawnPc(k) == IF k >= N THEN "select" ELSE "fanout"

\* What cancel() leaves in ctx.Err(): the first cause stays (a context already done is
\* left alone); a context not yet done becomes Canceled.
CancelErr_overwrite(done, err) == "Canceled"
CancelErr(done, err) == IF done THEN err ELSE "Canceled"

\* The ctx.Done() case of the FAN-IN select is ready.
FanInDoneCase_missing == FALSE
FanInDoneCase == ctxDone

\* Where the fan-in goroutine stands after its ctx.Done() case: it returns.
CancelledPc_continue == "select"
CancelledPc == "returned"

\* Where a worker stands after resultCh <- data went through: its function ends.
SentPc_resend == "send"
SentPc == "done"

\* fanout_fetch returns only the channel: it has no error result.
FanoutFetchErr == "nil"

\* The contexts fanout_fetch may be handed: not done, or already done for either cause.
CtxStates == {<<FALSE, "nil">>, <<TRUE, "Canceled">>, <<TRUE, "DeadlineExceeded">>}

\* The WaitGroup and polling demos are not running.
WgIdle ==
    /\ wgCounter = 0
    /\ wgAdds = 0
    /\ wgMainPc = "idle"
    /\ wgW = <<>>
    /\ jobsBuf = <<>>
    /\ jobsClosed = FALSE
    /\ jobsSent = 0
    /\ takenBy = <<>>
    /\ finishedBy = <<>>
    /\ wgCtxDone = FALSE
    /\ wgCtxErr = "nil"

\* fanout_fetch is not running.
FanIdle ==
    /\ urls = <<>>
    /\ ctxDone = FALSE
    /\ ctxErr = "nil"
    /\ mainPc = "idle"
    /\ faninPc = "idle"
    /\ spawned = 0
    /\ i = 0
    /\ result = NoMsg
    /\ wpc = <<>>
    /\ timer = <<>>
    /\ outClosed = FALSE
    /\ closeCount = 0
    /\ delivered = <<>>
    /\ returnedBy = "none"
    /\ startedAfterCancel = <<>>
    /\ fetchedBeforeCancel = <<>>

\* No call of fetch_data or fan_in_out_fetch is under way outside fanout_fetch.
CallsIdle == calls = <<>>

\* No controller is handling a request.
AuthIdle == auth = [handler |-> "none", pc |-> "idle"]

\* The state when fanout_fetch has returned out and its goroutine has made resultCh.
Init ==
    /\ demo = "FanOutFanInWithContext"
    /\ WgIdle
    /\ CallsIdle
    /\ AuthIdle
    /\ urls \in UrlLists
    /\ \E c \in CtxStates : ctxDone = c[1] /\ ctxErr = c[2]
    /\ mainPc = "range"
    /\ faninPc = AfterSpawnPc(0)
    /\ spawned = 0
    /\ i = 0
    /\ result = NoMsg
    /\ wpc = [w \in Workers |-> "none"]
    /\ timer = [w \in Workers |-> "none"]
    /\ outClosed = FALSE
    /\ closeCount = 0
    /\ delivered = <<>>
    /\ returnedBy = "none"
    /\ startedAfterCancel = [w \in Workers |-> FALSE]
    /\ fetchedBeforeCancel = [w \in Workers |-> FALSE]

\* The timer of context.WithTimeout fires: the context becomes done, DeadlineExceeded.
DeadlineFires ==
    /\ ~ctxDone
    /\ ctxDone' = TRUE
    /\ ctxErr' = "DeadlineExceeded"
    /\ UNCHANGED <<notFan, urls, mainPc, faninPc, spawned, i, result, wpc, timer, outClosed,
                   closeCount, delivered, returnedBy, startedAfterCancel,
                   fetchedBeforeCancel>>

\* FAN-OUT: go func(u string){...}(url) for the next url.
FanOutSpawn ==
    /\ faninPc = "fanout"
    /\ spawned < N
    /\ spawned' = spawned + 1
    /\ wpc' = [wpc EXCEPT ![spawned + 1] = "start"]
    /\ faninPc' = AfterSpawnPc(spawned + 1)
    /\ UNCHANGED <<notFan, urls, ctxDone, ctxErr, mainPc, i, result, timer, outClosed,
                   closeCount, delivered, returnedBy, startedAfterCancel,
                   fetchedBeforeCancel>>

\* The worker calls fan_in_out_fetch(ctx, u): the delay is drawn and the select entered.
WorkerStart(w) ==
    /\ w \in Workers
    /\ wpc[w] = "start"
    /\ \E d \in 0..(RandN - 1) :
          timer' = [timer EXCEPT ![w] = IF d = 0 THEN "fired" ELSE "pending"]
    /\ wpc' = [wpc EXCEPT ![w] = "fetch"]
    /\ startedAfterCancel' = [startedAfterCancel EXCEPT ![w] = ctxDone]
    /\ UNCHANGED <<notFan, urls, ctxDone, ctxErr, mainPc, faninPc, spawned, i, result,
                   outClosed, closeCount, delivered, returnedBy, fetchedBeforeCancel>>

\* time.After(delay) of a worker's fetch fires.
TimerFires(w) ==
    /\ w \in Workers
    /\ wpc[w] = "fetch"
    /\ timer[w] = "pending"
    /\ timer' = [timer EXCEPT ![w] = "fired"]
    /\ UNCHANGED <<notFan, urls, ctxDone, ctxErr, mainPc, faninPc, spawned, i, result, wpc,
                   outClosed, closeCount, delivered, returnedBy, startedAfterCancel,
                   fetchedBeforeCancel>>

\* case <-time.After(delay): the fetch returns its data and the worker goes on to
\* resultCh <- data.
FetchSuccess(w) ==
    /\ w \in Workers
    /\ wpc[w] = "fetch"
    /\ timer[w] = "fired"
    /\ wpc' = [wpc EXCEPT ![w] = "send"]
    /\ fetchedBeforeCancel' = [fetchedBeforeCancel EXCEPT ![w] = ~ctxDone]
    /\ UNCHANGED <<notFan, urls, ctxDone, ctxErr, mainPc, faninPc, spawned, i, result, timer,
                   outClosed, closeCount, delivered, returnedBy, startedAfterCancel>>

\* case <-ctx.Done(): the fetch returns ctx.Err(); the worker prints it and returns
\* without sending.
FetchCancelled(w) ==
    /\ w \in Workers
    /\ wpc[w] = "fetch"
    /\ ctxDone
    /\ wpc' = [wpc EXCEPT ![w] = "exited"]
    /\ UNCHANGED <<notFan, urls, ctxDone, ctxErr, mainPc, faninPc, spawned, i, result, timer,
                   outClosed, closeCount, delivered, returnedBy, startedAfterCancel,
                   fetchedBeforeCancel>>

\* FAN-IN, case result := <-resultCh: the rendezvous with a worker blocked on
\* resultCh <- data; the goroutine goes on to out <- result.
FanInRecv(w) ==
    /\ w \in Workers
    /\ faninPc = "select"
    /\ i < LoopBound
    /\ wpc[w] = "send"
    /\ result' = [w |-> w, data |-> FetchData(urls[w])]
    /\ wpc' = [wpc EXCEPT ![w] = SentPc]
    /\ faninPc' = "sendout"
    /\ UNCHANGED <<notFan, urls, ctxDone, ctxErr, mainPc, spawned, i, timer, outClosed,
                   closeCount, delivered, returnedBy, startedAfterCancel,
                   fetchedBeforeCancel>>

\* FAN-IN, case <-ctx.Done(): prints and returns; the deferred close(out) runs.
FanInCancelled ==
    /\ faninPc = "select"
    /\ i < LoopBound
    /\ FanInDoneCase
    /\ faninPc' = CancelledPc
    /\ outClosed' = TRUE
    /\ closeCount' = closeCount + 1
    /\ returnedBy' = "ctxDone"
    /\ UNCHANGED <<notFan, urls, ctxDone, ctxErr, mainPc, spawned, i, result, wpc, timer,
                   delivered, startedAfterCancel, fetchedBeforeCancel>>

\* The FAN-IN loop has run len(urls) times: the goroutine returns and the deferred
\* close(out) runs.
FanInReturn ==
    /\ faninPc = "select"
    /\ i >= LoopBound
    /\ faninPc' = "returned"
    /\ outClosed' = TRUE
    /\ closeCount' = closeCount + 1
    /\ returnedBy' = "loopEnd"
    /\ UNCHANGED <<notFan, urls, ctxDone, ctxErr, mainPc, spawned, i, result, wpc, timer,
                   delivered, startedAfterCancel, fetchedBeforeCancel>>

\* for data := range out receives what the fan-in goroutine sends with out <- result;
\* the FAN-IN loop goes to its next round.
ConsumerRecv ==
    /\ mainPc = "range"
    /\ faninPc = "sendout"
    /\ ~outClosed
    /\ delivered' = Append(delivered, result)
    /\ result' = NoMsg
    /\ i' = i + 1
    /\ faninPc' = "select"
    /\ UNCHANGED <<notFan, urls, ctxDone, ctxErr, mainPc, spawned, wpc, timer, outClosed,
                   closeCount, returnedBy, startedAfterCancel, fetchedBeforeCancel>>

\* range out ends when out is closed; the function goes to its deferred call.
RangeEnds ==
    /\ mainPc = "range"
    /\ outClosed
    /\ mainPc' = "deferred"
    /\ UNCHANGED <<notFan, urls, ctxDone, ctxErr, faninPc, spawned, i, result, wpc, timer,
                   outClosed, closeCount, delivered, returnedBy, startedAfterCancel,
                   fetchedBeforeCancel>>

\* defer cancel(): the context becomes done unless it already is.
DeferredCancel ==
    /\ mainPc = "deferred"
    /\ mainPc' = "finished"
    /\ ctxDone' = TRUE
    /\ ctxErr' = CancelErr(ctxDone, ctxErr)
    /\ UNCHANGED <<notFan, urls, faninPc, spawned, i, result, wpc, timer, outClosed,
                   closeCount, delivered, returnedBy, startedAfterCancel,
                   fetchedBeforeCancel>>

\* One step of the goroutine fanout_fetch starts.
FanInStep ==
    \/ FanOutSpawn
    \/ \E w \in 1..MaxUrls : FanInRecv(w)
    \/ FanInCancelled
    \/ FanInReturn

\* One step of the worker of url w.
WorkerStep(w) ==
    \/ WorkerStart(w)
    \/ FetchSuccess(w)
    \/ FetchCancelled(w)

\* One step of FanOutFanInWithContext.
MainStep ==
    \/ ConsumerRecv
    \/ RangeEnds
    \/ DeferredCancel

Next ==
    \/ DeadlineFires
    \/ FanInStep
    \/ \E w \in 1..MaxUrls : WorkerStep(w)
    \/ \E w \in 1..MaxUrls : TimerFires(w)
    \/ MainStep

Spec == Init /\ [][Next]_vars

\* The Go scheduler runs every goroutine that can take a step, and a timer that was
\* started fires; nothing makes the context's deadline fire.
Fairness ==
    /\ WF_vars(FanInStep)
    /\ WF_vars(MainStep)
    /\ \A w \in 1..MaxUrls : WF_vars(WorkerStep(w))
    /\ \A w \in 1..MaxUrls : WF_vars(TimerFires(w))

LiveSpec == Spec /\ Fairness

\* The fan-in goroutine and the consumer are scheduled; the workers and their timers
\* may stay where they are for ever.
FanInFairSpec == Spec /\ WF_vars(FanInStep) /\ WF_vars(MainStep)

TypeOK ==
    /\ urls \in UrlLists
    /\ ctxDone \in BOOLEAN
    /\ ctxErr \in {"nil", "Canceled", "DeadlineExceeded"}
    /\ mainPc \in {"range", "deferred", "finished"}
    /\ faninPc \in {"fanout", "select", "sendout", "returned"}
    /\ spawned \in 0..N
    /\ i \in 0..N
    /\ wpc \in [Workers -> {"none", "start", "fetch", "send", "done", "exited"}]
    /\ timer \in [Workers -> {"none", "pending", "fired"}]
    /\ outClosed \in BOOLEAN
    /\ closeCount \in 0..1
    /\ returnedBy \in {"none", "loopEnd", "ctxDone"}
    /\ startedAfterCancel \in [Workers -> BOOLEAN]
    /\ fetchedBeforeCancel \in [Workers -> BOOLEAN]

(***************************************************************************)
(* The WaitGroup demos (WaitGroupSampleOne,                                *)
(* WaitingForMultipleGoRoutinesToFinish, WgProcessMultipleFileExample,     *)
(* GoroutineswithChannelsAndWaitGroup, CancelableWaitGroupPattern) and     *)
(* the polling demo ContextCancellationExample.                            *)
(***************************************************************************)

\* Largest number of "Working..." rounds of a polling worker that is counted; the
\* count stays there when the worker goes on working.
MaxIters == 2

\* for i := 1; i <= 3; i++ in WaitGroupSampleOne
SampleWorkers == 3

\* for i := 1; i <= 3; i++ in WaitingForMultipleGoRoutinesToFinish
MultiWorkers == 3

\* files = a.txt, b.txt, c.txt
NumFiles == 3

\* const numWorkers = 3
NumWorkers == 3

\* jobs := make(chan int, 5)
JobsCap == 5

\* for j := 1; j <= 5; j++
NumJobs == 5

\* The demos that use a sync.WaitGroup.
WgDemos == {"WaitGroupSampleOne", "WaitingForMultipleGoRoutinesToFinish",
            "WgProcessMultipleFileExample", "GoroutineswithChannelsAndWaitGroup",
            "CancelableWaitGroupPattern"}

\* All the demos of this part of the model.
PollDemos == WgDemos \cup {"ContextCancellationExample"}

\* The number of goroutines a demo's start loop goes through.
WorkerLoopBound_offByOne(d) ==
    IF d = "GoroutineswithChannelsAndWaitGroup" THEN NumWorkers + 1 ELSE 1
WorkerLoopBound(d) ==
    CASE d = "WaitGroupSampleOne" -> SampleWorkers
      [] d = "WaitingForMultipleGoRoutinesToFinish" -> MultiWorkers
      [] d = "WgProcessMultipleFileExample" -> NumFiles
      [] d = "GoroutineswithChannelsAndWaitGroup" -> NumWorkers
      [] OTHER -> 1

\* The most goroutines any demo starts.
MaxStarted == NumWorkers + 1

\* wg.Add(1)
AddDelta_forgotten == 1 - 1
AddDelta == 1

\* wg.Wait() returns when the counter is 0.
WaitReturns_noWait(c) == TRUE
WaitReturns(c) == c = 0

\* close(jobs) closes the channel.
JobsClosedAfterClose_forgotten == FALSE
JobsClosedAfterClose == TRUE

\* The case <-ctx.Done() of a polling worker's select is ready; its default case is
\* taken only when this one is not.
PollDoneCase_missing(done) == FALSE
PollDoneCase(done) == done

\* Where a started goroutine begins.
NewWorker(d) ==
    [pc |-> CASE d = "GoroutineswithChannelsAndWaitGroup" -> "recv"
              [] d \in {"CancelableWaitGroupPattern", "ContextCancellationExample"} -> "poll"
              [] OTHER -> "run",
     dones |-> 0, job |-> 0, iters |-> 0, observed |-> FALSE]

\* Where the demo function stands after its k-th go statement.
AfterGoPc(d, k) ==
    CASE d = "ContextCancellationExample" -> "sleep"
      [] k < WorkerLoopBound(d) -> "add"
      [] d = "GoroutineswithChannelsAndWaitGroup" -> "produce"
      [] d = "CancelableWaitGroupPattern" -> "cancel"
      [] OTHER -> "wait"

\* The state when a demo function has made its WaitGroup, channel and context.
WgInit ==
    /\ demo \in PollDemos
    /\ FanIdle
    /\ CallsIdle
    /\ AuthIdle
    /\ wgCounter = 0
    /\ wgAdds = 0
    /\ wgMainPc = IF demo \in WgDemos THEN "add" ELSE "go"
    /\ wgW = <<>>
    /\ jobsBuf = <<>>
    /\ jobsClosed = FALSE
    /\ jobsSent = 0
    /\ takenBy = [j \in 1..NumJobs |-> <<>>]
    /\ finishedBy = [j \in 1..NumJobs |-> <<>>]
    /\ wgCtxDone = FALSE
    /\ wgCtxErr = "nil"

\* wg.Add(1), before the go statement.
WgAdd ==
    /\ wgMainPc = "add"
    /\ wgCounter' = wgCounter + AddDelta
    /\ wgAdds' = wgAdds + 1
    /\ wgMainPc' = "go"
    /\ UNCHANGED <<notWg, wgW, jobsBuf, jobsClosed, jobsSent, takenBy, finishedBy,
                   wgCtxDone, wgCtxErr>>

\* The go statement: the next goroutine exists.
WgGo ==
    /\ wgMainPc = "go"
    /\ wgW' = Append(wgW, NewWorker(demo))
    /\ wgMainPc' = AfterGoPc(demo, Len(wgW) + 1)
    /\ UNCHANGED <<notWg, wgCounter, wgAdds, jobsBuf, jobsClosed, jobsSent, takenBy,
                   finishedBy, wgCtxDone, wgCtxErr>>

\* jobs <- j: goes through when the buffer has room.
WgProduce ==
    /\ wgMainPc = "produce"
    /\ Len(jobsBuf) < JobsCap
    /\ jobsBuf' = Append(jobsBuf, jobsSent + 1)
    /\ jobsSent' = jobsSent + 1
    /\ wgMainPc' = IF jobsSent + 1 >= NumJobs THEN "close" ELSE "produce"
    /\ UNCHANGED <<notWg, wgCounter, wgAdds, wgW, jobsClosed, takenBy, finishedBy,
                   wgCtxDone, wgCtxErr>>

\* close(jobs)
WgClose ==
    /\ wgMainPc = "close"
    /\ jobsClosed' = JobsClosedAfterClose
    /\ wgMainPc' = "wait"
    /\ UNCHANGED <<notWg, wgCounter, wgAdds, wgW, jobsBuf, jobsSent, takenBy,
                   finishedBy, wgCtxDone, wgCtxErr>>

\* cancel() in CancelableWaitGroupPattern
WgCancel ==
    /\ wgMainPc = "cancel"
    /\ wgCtxDone' = TRUE
    /\ wgCtxErr' = CancelErr(wgCtxDone, wgCtxErr)
    /\ wgMainPc' = "wait"
    /\ UNCHANGED <<notWg, wgCounter, wgAdds, wgW, jobsBuf, jobsClosed, jobsSent,
                   takenBy, finishedBy>>

\* wg.Wait() returns and the demo prints its last line.
WgWait ==
    /\ wgMainPc = "wait"
    /\ WaitReturns(wgCounter)
    /\ wgMainPc' = "done"
    /\ UNCHANGED <<notWg, wgCounter, wgAdds, wgW, jobsBuf, jobsClosed, jobsSent,
                   takenBy, finishedBy, wgCtxDone, wgCtxErr>>

\* ContextCancellationExample: the 3 s sleep ends, "main finished" is printed and the
\* deferred cancel() runs.
WgSleepEnds ==
    /\ wgMainPc = "sleep"
    /\ wgMainPc' = "done"
    /\ wgCtxDone' = TRUE
    /\ wgCtxErr' = CancelErr(wgCtxDone, wgCtxErr)
    /\ UNCHANGED <<notWg, wgCounter, wgAdds, wgW, jobsBuf, jobsClosed, jobsSent,
                   takenBy, finishedBy>>

\* ContextCancellationExample: the 2 s timeout of its context fires.
WgDeadlineFires ==
    /\ demo = "ContextCancellationExample"
    /\ ~wgCtxDone
    /\ wgCtxDone' = TRUE
    /\ wgCtxErr' = "DeadlineExceeded"
    /\ UNCHANGED <<notWg, wgCounter, wgAdds, wgMainPc, wgW, jobsBuf, jobsClosed,
                   jobsSent, takenBy, finishedBy>>

\* The body of a worker of the first three demos (print, sleep, print) runs to its end.
WgWorkerBody(k) ==
    /\ k \in DOMAIN wgW
    /\ wgW[k].pc = "run"
    /\ wgW' = [wgW EXCEPT ![k].pc = "return"]
    /\ UNCHANGED <<notWg, wgCounter, wgAdds, wgMainPc, jobsBuf, jobsClosed, jobsSent,
                   takenBy, finishedBy, wgCtxDone, wgCtxErr>>

\* for j := range jobs receives the next job: "started job".
WgTakeJob(k) ==
    /\ k \in DOMAIN wgW
    /\ wgW[k].pc = "recv"
    /\ jobsBuf # <<>>
    /\ wgW' = [wgW EXCEPT ![k].pc = "work", ![k].job = Head(jobsBuf)]
    /\ takenBy' = [takenBy EXCEPT ![Head(jobsBuf)] = Append(@, k)]
    /\ jobsBuf' = Tail(jobsBuf)
    /\ UNCHANGED <<notWg, wgCounter, wgAdds, wgMainPc, jobsClosed, jobsSent,
                   finishedBy, wgCtxDone, wgCtxErr>>

\* The sleep of a job ends: "finished job", back to the range.
WgFinishJob(k) ==
    /\ k \in DOMAIN wgW
    /\ wgW[k].pc = "work"
    /\ finishedBy' = [finishedBy EXCEPT ![wgW[k].job] = Append(@, k)]
    /\ wgW' = [wgW EXCEPT ![k].pc = "recv", ![k].job = 0]
    /\ UNCHANGED <<notWg, wgCounter, wgAdds, wgMainPc, jobsBuf, jobsClosed, jobsSent,
                   takenBy, wgCtxDone, wgCtxErr>>

\* range jobs ends: the channel is closed and drained.
WgRangeEnds(k) ==
    /\ k \in DOMAIN wgW
    /\ wgW[k].pc = "recv"
    /\ jobsBuf = <<>>
    /\ jobsClosed
    /\ wgW' = [wgW EXCEPT ![k].pc = "return"]
    /\ UNCHANGED <<notWg, wgCounter, wgAdds, wgMainPc, jobsBuf, jobsClosed, jobsSent,
                   takenBy, finishedBy, wgCtxDone, wgCtxErr>>

\* The default case of a polling worker: one more round of work ("Working...", or
\* "doing cancel_dowork..." followed by its 500 ms sleep).
WgPollWork(k) ==
    /\ k \in DOMAIN wgW
    /\ wgW[k].pc = "poll"
    /\ ~PollDoneCase(wgCtxDone)
    /\ wgW' = [wgW EXCEPT
                 ![k].iters = IF @ < MaxIters THEN @ + 1 ELSE @,
                 ![k].pc = IF demo = "ContextCancellationExample" THEN "sleeping"
                                                                   ELSE "poll"]
    /\ UNCHANGED <<notWg, wgCounter, wgAdds, wgMainPc, jobsBuf, jobsClosed, jobsSent,
                   takenBy, finishedBy, wgCtxDone, wgCtxErr>>

\* cancel_dowork's time.Sleep(500 ms) ends: back to the select.
WgPollWake(k) ==
    /\ k \in DOMAIN wgW
    /\ wgW[k].pc = "sleeping"
    /\ wgW' = [wgW EXCEPT ![k].pc = "poll"]
    /\ UNCHANGED <<notWg, wgCounter, wgAdds, wgMainPc, jobsBuf, jobsClosed, jobsSent,
                   takenBy, finishedBy, wgCtxDone, wgCtxErr>>

\* case <-ctx.Done(): the polling worker prints and returns.
WgPollDone(k) ==
    /\ k \in DOMAIN wgW
    /\ wgW[k].pc = "poll"
    /\ PollDoneCase(wgCtxDone)
    /\ wgW' = [wgW EXCEPT ![k].observed = TRUE,
                          ![k].pc = IF demo \in WgDemos THEN "return" ELSE "done"]
    /\ UNCHANGED <<notWg, wgCounter, wgAdds, wgMainPc, jobsBuf, jobsClosed, jobsSent,
                   takenBy, finishedBy, wgCtxDone, wgCtxErr>>

\* The worker's deferred wg.Done() runs as its function returns.
WgWorkerDone(k) ==
    /\ k \in DOMAIN wgW
    /\ wgW[k].pc = "return"
    /\ wgCounter' = wgCounter - 1
    /\ wgW' = [wgW EXCEPT ![k].pc = "done", ![k].dones = @ + 1]
    /\ UNCHANGED <<notWg, wgAdds, wgMainPc, jobsBuf, jobsClosed, jobsSent, takenBy,
                   finishedBy, wgCtxDone, wgCtxErr>>

\* One step of the demo function.
WgMainStep ==
    \/ WgAdd
    \/ WgGo
    \/ WgProduce
    \/ WgClose
    \/ WgCancel
    \/ WgWait
    \/ WgSleepEnds

\* One step of the k-th goroutine the demo started.
WgWorkerStep(k) ==
    \/ WgWorkerBody(k)
    \/ WgTakeJob(k)
    \/ WgFinishJob(k)
    \/ WgRangeEnds(k)
    \/ WgPollWork(k)
    \/ WgPollWake(k)
    \/ WgPollDone(k)
    \/ WgWorkerDone(k)

WgNext ==
    \/ WgMainStep
    \/ WgDeadlineFires
    \/ \E k \in 1..MaxStarted : WgWorkerStep(k)

WgSpec == WgInit /\ [][WgNext]_vars

\* The Go scheduler runs the demo function and every goroutine that can take a step;
\* nothing makes the context's deadline fire.
WgFairness ==
    /\ WF_vars(WgMainStep)
    /\ \A k \in 1..MaxStarted : WF_vars(WgWorkerStep(k))

WgLiveSpec == WgSpec /\ WgFairness

\* The started goroutines that are processing a job.
InProcess == {k \in DOMAIN wgW : wgW[k].pc = "work"}

\* Where a job is: not yet sent, in the channel, with a worker, or finished.
JobInBuf(j) == \E k \in DOMAIN jobsBuf : jobsBuf[k] = j
JobAtWorker(j) == \E k \in DOMAIN wgW : wgW[k].pc = "work" /\ wgW[k].job = j

(***************************************************************************)
(* fetch_data, called by HTTPHandlerSample for each request, and           *)
(* fan_in_out_fetch, each call with its own context.                       *)
(***************************************************************************)

\* Most calls under way at once.
MaxCalls == 2

\* http.StatusRequestTimeout
StatusRequestTimeout == 408

\* The status of a response written without WriteHeader (fmt.Fprintln(w, data)).
StatusOK == 200

\* What the timer case of each function returns.
FetchResult(fn, url) == IF fn = "fetch_data" THEN "Here is your Data!" ELSE FetchData(url)

\* The state of time.After's timer as the select is entered: fetch_data waits 5 s,
\* fan_in_out_fetch the d seconds it drew.
TimerAtStart(fn, d) == IF fn = "fan_in_out_fetch" /\ d = 0 THEN "fired" ELSE "pending"

\* http.Error(w, "Request canceled or failed", http.StatusRequestTimeout)
ErrorResponse == [status |-> StatusRequestTimeout, body |-> "Request canceled or failed\n"]

\* fmt.Fprintln(w, data)
DataResponse(data) == [status |-> StatusOK, body |-> data \o "\n"]

\* HTTPHandlerSample goes on to fmt.Fprintln(w, data) only when err is nil: the error
\* branch returns.
HandlerWritesData_noReturn(err) == TRUE
HandlerWritesData(err) == err = "nil"

\* The calls that can be under way: HTTPHandlerSample's fetch_data(r.Context()) or a
\* fan_in_out_fetch(ctx, url), each with a context not done or already done.
NewCalls ==
    {[fn |-> f, url |-> IF f = "fetch_data" THEN "" ELSE u, ctxDone |-> c[1],
      ctxErr |-> c[2], pc |-> "call", timer |-> "none", data |-> "", err |-> "nil",
      responses |-> <<>>] :
        f \in {"fetch_data", "fan_in_out_fetch"}, u \in UrlSet, c \in CtxStates}

CallInit ==
    /\ demo = "HTTPHandlerSample"
    /\ FanIdle
    /\ WgIdle
    /\ AuthIdle
    /\ calls \in UNION {[1..n -> NewCalls] : n \in 1..MaxCalls}

\* The function is entered: the timer is started and the select reached.
CallStart(c) ==
    /\ c \in DOMAIN calls
    /\ calls[c].pc = "call"
    /\ \E d \in 0..(RandN - 1) :
          calls' = [calls EXCEPT ![c].pc = "select",
                                 ![c].timer = TimerAtStart(calls[c].fn, d)]
    /\ UNCHANGED notCalls

\* time.After's timer fires.
CallTimerFires(c) ==
    /\ c \in DOMAIN calls
    /\ calls[c].pc = "select"
    /\ calls[c].timer = "pending"
    /\ calls' = [calls EXCEPT ![c].timer = "fired"]
    /\ UNCHANGED notCalls

\* The call's context becomes done: the client went away, or a deadline passed.
CallCtxDone(c) ==
    /\ c \in DOMAIN calls
    /\ ~calls[c].ctxDone
    /\ \E e \in {"Canceled", "DeadlineExceeded"} :
          calls' = [calls EXCEPT ![c].ctxDone = TRUE, ![c].ctxErr = e]
    /\ UNCHANGED notCalls

\* case <-time.After(...): return the data, nil.
CallReturnData(c) ==
    /\ c \in DOMAIN calls
    /\ calls[c].pc = "select"
    /\ calls[c].timer = "fired"
    /\ calls' = [calls EXCEPT ![c].pc = "returned",
                              ![c].data = FetchResult(calls[c].fn, calls[c].url),
                              ![c].err = "nil"]
    /\ UNCHANGED notCalls

\* case <-ctx.Done(): return "", ctx.Err().
CallReturnErr(c) ==
    /\ c \in DOMAIN calls
    /\ calls[c].pc = "select"
    /\ calls[c].ctxDone
    /\ calls' = [calls EXCEPT ![c].pc = "returned",
                              ![c].data = "",
                              ![c].err = calls[c].ctxErr]
    /\ UNCHANGED notCalls

\* HTTPHandlerSample after fetch_data: http.Error and return when err is not nil,
\* fmt.Fprintln(w, data) otherwise.
HandlerRespond(c) ==
    /\ c \in DOMAIN calls
    /\ calls[c].fn = "fetch_data"
    /\ calls[c].pc = "returned"
    /\ calls' = [calls EXCEPT
                   ![c].pc = "responded",
                   ![c].responses =
                       (IF calls[c].err # "nil" THEN <<ErrorResponse>> ELSE <<>>)
                       \o (IF HandlerWritesData(calls[c].err)
                              THEN <<DataResponse(calls[c].data)>> ELSE <<>>)]
    /\ UNCHANGED notCalls

CallNext ==
    \E c \in 1..MaxCalls :
        \/ CallStart(c)
        \/ CallTimerFires(c)
        \/ CallCtxDone(c)
        \/ CallReturnData(c)
        \/ CallReturnErr(c)
        \/ HandlerRespond(c)

CallSpec == CallInit /\ [][CallNext]_vars

(***************************************************************************)
(* The controllers SignUp and Login (src/unnamed/part_001), one request    *)
(* each.  What the request holds and what the collaborators (gin's         *)
(* binding, the validator, the user collection, bcrypt) answer are the     *)
(* inputs; c.JSON calls are recorded in the order they are made.           *)
(***************************************************************************)

\* verifyPassword: valid and an empty message when bcrypt finds the password to
\* match the hash, invalid and the message otherwise.
VerifyPassword(match) ==
    [valid |-> match, msg |-> IF match THEN "" ELSE "Login or Password is Incorrect"]

\* c.JSON(status, body)
Response(status, body) == [status |-> status, body |-> body]

\* A request to Login: whether the body binds, the user is found, the password
\* pointers are nil, and bcrypt finds the password to match.
LoginRequests ==
    {[handler |-> "Login", pc |-> "bind", bindOk |-> b, findOk |-> f, pwNil |-> n,
      pwMatch |-> m, verified |-> "none", failed |-> {}, responses |-> <<>>,
      tokenCalls |-> 0, updateCalls |-> 0, insertCalls |-> 0, panicked |-> FALSE] :
        b \in BOOLEAN, f \in BOOLEAN, n \in BOOLEAN, m \in BOOLEAN}

\* A request to SignUp: whether the body binds and validates, what the two
\* CountDocuments calls and InsertOne answer, and whether user.Password is nil.
SignUpRequests ==
    {[handler |-> "SignUp", pc |-> "bind", bindOk |-> b, validOk |-> v,
      emailErr |-> ee, emailExists |-> ex, phoneErr |-> pe, phoneExists |-> px,
      insertErr |-> ie, pwNil |-> n, failed |-> {}, responses |-> <<>>,
      tokenCalls |-> 0, updateCalls |-> 0, insertCalls |-> 0, panicked |-> FALSE] :
        b \in BOOLEAN, v \in BOOLEAN, ee \in BOOLEAN, ex \in BOOLEAN, pe \in BOOLEAN,
        px \in BOOLEAN, ie \in BOOLEAN, n \in BOOLEAN}

AuthInit ==
    /\ demo = "controllers"
    /\ FanIdle
    /\ WgIdle
    /\ CallsIdle
    /\ auth \in LoginRequests \cup SignUpRequests

\* Login: c.BindJSON(&user); on an error the 400 response and return.
LoginBind ==
    /\ auth.handler = "Login"
    /\ auth.pc = "bind"
    /\ auth' = IF auth.bindOk
                  THEN [auth EXCEPT !.pc = "find"]
                  ELSE [auth EXCEPT !.pc = "done",
                                    !.failed = @ \cup {"bind"},
                                    !.responses = Append(@, Response(400, "bind error"))]
    /\ UNCHANGED notAuth

\* Login: UserCollection.FindOne(...).Decode(&founduser); on an error the 500
\* response and return.
LoginFind ==
    /\ auth.handler = "Login"
    /\ auth.pc = "find"
    /\ auth' = IF auth.findOk
                  THEN [auth EXCEPT !.pc = "verify"]
                  ELSE [auth EXCEPT !.pc = "done",
                                    !.failed = @ \cup {"find"},
                                    !.responses =
                                        Append(@, Response(500, "User not found, Invalid credentials"))]
    /\ UNCHANGED notAuth

\* Login: verifyPassword(*user.Password, *founduser.Password); when the password is
\* not valid the 500 response is written and the message printed, and the handler
\* goes on (the if has no return).  A nil password pointer panics.
LoginVerify ==
    /\ auth.handler = "Login"
    /\ auth.pc = "verify"
    /\ auth' = IF auth.pwNil
                  THEN [auth EXCEPT !.pc = "done", !.panicked = TRUE]
                  ELSE IF VerifyPassword(auth.pwMatch).valid
                          THEN [auth EXCEPT !.pc = "token", !.verified = "valid"]
                          ELSE [auth EXCEPT
                                  !.pc = "token",
                                  !.verified = "invalid",
                                  !.failed = @ \cup {"password"},
                                  !.responses =
                                      Append(@, Response(500, VerifyPassword(auth.pwMatch).msg))]
    /\ UNCHANGED notAuth

\* Login: tokengen.TokenGenerator(...)
LoginToken ==
    /\ auth.handler = "Login"
    /\ auth.pc = "token"
    /\ auth' = [auth EXCEPT !.pc = "update", !.tokenCalls = @ + 1]
    /\ UNCHANGED notAuth

\* Login: tokengen.UpdateAllTokens(token, refreshToken, founduser.User_ID)
LoginUpdate ==
    /\ auth.handler = "Login"
    /\ auth.pc = "update"
    /\ auth' = [auth EXCEPT !.pc = "respond", !.updateCalls = @ + 1]
    /\ UNCHANGED notAuth

\* Login: c.JSON(http.StatusFound, founduser)
LoginRespond ==
    /\ auth.handler = "Login"
    /\ auth.pc = "respond"
    /\ auth' = [auth EXCEPT !.pc = "done",
                            !.responses = Append(@, Response(302, "founduser"))]
    /\ UNCHANGED notAuth

\* SignUp: c.BindJSON(&user); on an error the 400 response is written and the
\* handler goes on (the if has no return).
SignUpBind ==
    /\ auth.handler = "SignUp"
    /\ auth.pc = "bind"
    /\ auth' = IF auth.bindOk
                  THEN [auth EXCEPT !.pc = "validate"]
                  ELSE [auth EXCEPT !.pc = "validate",
                                    !.failed = @ \cup {"bind"},
                                    !.responses = Append(@, Response(400, "bind error"))]
    /\ UNCHANGED notAuth

\* SignUp: Validate.Struct(user); on an error the 400 response and return.
SignUpValidate ==
    /\ auth.handler = "SignUp"
    /\ auth.pc = "validate"
    /\ auth' = IF auth.validOk
                  THEN [auth EXCEPT !.pc = "email"]
                  ELSE [auth EXCEPT !.pc = "done",
                                    !.failed = @ \cup {"validate"},
                                    !.responses = Append(@, Response(400, "validation error"))]
    /\ UNCHANGED notAuth

\* SignUp: CountDocuments by email; an error panics (log.Panic); when a user with
\* the email exists the 400 response is written and the handler goes on (the if has
\* no return).
SignUpEmail ==
    /\ auth.handler = "SignUp"
    /\ auth.pc = "email"
    /\ auth' = IF auth.emailErr
                  THEN [auth EXCEPT !.pc = "done", !.panicked = TRUE]
                  ELSE IF auth.emailExists
                          THEN [auth EXCEPT
                                  !.pc = "phone",
                                  !.failed = @ \cup {"email"},
                                  !.responses = Append(@, Response(400, "User already existed"))]
                          ELSE [auth EXCEPT !.pc = "phone"]
    /\ UNCHANGED notAuth

\* SignUp: CountDocuments by phone; an error panics; when the phone is in use the 400
\* response and return.
SignUpPhone ==
    /\ auth.handler = "SignUp"
    /\ auth.pc = "phone"
    /\ auth' = IF auth.phoneErr
                  THEN [auth EXCEPT !.pc = "done", !.panicked = TRUE]
                  ELSE IF auth.phoneExists
                          THEN [auth EXCEPT
                                  !.pc = "done",
                                  !.failed = @ \cup {"phone"},
                                  !.responses = Append(@, Response(400, "Phone is already in use"))]
                          ELSE [auth EXCEPT !.pc = "hash"]
    /\ UNCHANGED notAuth

\* SignUp: HashPassword(*user.Password) (a nil pointer panics), the time stamps and
\* ids, tokengen.TokenGenerator(...) and the empty lists.
SignUpHash ==
    /\ auth.handler = "SignUp"
    /\ auth.pc = "hash"
    /\ auth' = IF auth.pwNil
                  THEN [auth EXCEPT !.pc = "done", !.panicked = TRUE]
                  ELSE [auth EXCEPT !.pc = "insert", !.tokenCalls = @ + 1]
    /\ UNCHANGED notAuth

\* SignUp: UserCollection.InsertOne(ctx, user); the 500 response on an error, the
\* 201 response otherwise.
SignUpInsert ==
    /\ auth.handler = "SignUp"
    /\ auth.pc = "insert"
    /\ auth' = [auth EXCEPT
                  !.pc = "done",
                  !.insertCalls = @ + 1,
                  !.responses = Append(@, IF auth.insertErr
                                             THEN Response(500, "not")
                                             ELSE Response(201, "Successfully signed up!"))]
    /\ UNCHANGED notAuth

AuthNext ==
    \/ LoginBind
    \/ LoginFind
    \/ LoginVerify
    \/ LoginToken
    \/ LoginUpdate
    \/ LoginRespond
    \/ SignUpBind
    \/ SignUpValidate
    \/ SignUpEmail
    \/ SignUpPhone
    \/ SignUpHash
    \/ SignUpInsert

AuthSpec == AuthInit /\ [][AuthNext]_vars

\* The workers whose result the consumer has received.
DeliveredWorkers == {delivered[k].w : k \in DOMAIN delivered}

\* What the fan-in goroutine has taken from resultCh so far, in order: what the
\* consumer received and the value waiting at out <- result.
Forwarded == IF result = NoMsg THEN delivered ELSE Append(delivered, result)

\* The number of workers a dispatch runs at a time: one goroutine per url.
Concurrency == Len(urls)

(***************************************************************************)
(* C1                                                                      *)
(***************************************************************************)

C2_NoWorkerBlockedAfterReturn ==
    faninPc = "returned" => \A w \in Workers : wpc[w] # "send"

(***************************************************************************)
(* C3                                                                      *)
(***************************************************************************)

\* C3: with a consumer that keeps receiving, out is eventually closed and the range
\* loop ends, whether the context is cancelled or not.
C3_EventuallyClosed == <>(outClosed /\ mainPc # "range")

\* C3 witness: the range loop has ended after a closure forced by cancellation with
\* a worker's fetch still running.
C3_Witness ==
    /\ outClosed
    /\ returnedBy = "ctxDone"
    /\ mainPc = "deferred"
    /\ \E w \in Workers : wpc[w] = "fetch"

(***************************************************************************)
(* C4                                                                      *)
(***************************************************************************)

\* C4 (as claimed): when out is closed, every worker whose fetch returned its data
\* before the context was done has had its result delivered.
C4_CompletedResultsDelivered ==
    outClosed => \A w \in Workers : fetchedBeforeCancel[w] => w \in DeliveredWorkers

(***************************************************************************)
(* C5                                                                      *)
(***************************************************************************)

\* C5 (as claimed): out is closed only when every worker has handed over its result
\* or exited.
C5_ClosedOnlyWhenNoWorkerInFlight ==
    outClosed => \A w \in Workers : wpc[w] \in {"done", "exited"}

\* C5 (amended): when out is closed because the FAN-IN loop ran to its end, every
\* worker was started and has handed over its result; a closure forced by
\* cancellation is not held back by workers still in flight.
C5_LoopEndCloseNoWorkerInFlight ==
    /\ (outClosed => spawned = N)
    /\ (outClosed /\ returnedBy = "loopEnd" => \A w \in Workers : wpc[w] = "done")

\* C5 witness: out was closed by the loop's end after at least two workers.
C5_Witness == outClosed /\ returnedBy = "loopEnd" /\ N >= 2

(***************************************************************************)
(* C6                                                                      *)
(***************************************************************************)

\* C6: out is closed at most once, by the returning fan-in goroutine, and after the
\* closure nothing more is delivered on it or closed.
C6_ClosedOnce ==
    /\ [](closeCount <= 1 /\ (outClosed <=> closeCount = 1))
    /\ [](outClosed => faninPc = "returned" /\ result = NoMsg)
    /\ [][outClosed => delivered' = delivered /\ closeCount' = closeCount]_vars

\* C6 witness: out closed by cancellation after a delivery, a worker still wanting to
\* send.
C6_Witness ==
    /\ outClosed
    /\ closeCount = 1
    /\ Len(delivered) > 0
    /\ \E w \in Workers : wpc[w] = "send"

(***************************************************************************)
(* C7                                                                      *)
(***************************************************************************)

\* C7 (as claimed): a worker that starts when the context is already done neither
\* runs the fetch nor comes out of it with data.
C7_NoFetchAfterCancel ==
    \A w \in Workers : startedAfterCancel[w] => wpc[w] \notin {"fetch", "send", "done"}

(***************************************************************************)
(* C8                                                                      *)
(***************************************************************************)

\* C8: every value the fan-in goroutine has taken from resultCh comes from a
\* different worker, is that worker's "Data from <url>", and its worker has ended;
\* so no worker's result is forwarded twice.
C8_AtMostOncePerUrl ==
    /\ \A j, k \in DOMAIN Forwarded : j # k => Forwarded[j].w # Forwarded[k].w
    /\ \A k \in DOMAIN Forwarded :
          /\ Forwarded[k].w \in Workers
          /\ Forwarded[k].data = FetchData(urls[Forwarded[k].w])
          /\ wpc[Forwarded[k].w] = "done"

\* C8 witness: two workers with the same url had their results delivered.
C8_Witness ==
    /\ N >= 2
    /\ urls[1] = urls[2]
    /\ {1, 2} \subseteq DeliveredWorkers

(***************************************************************************)
(* C9                                                                      *)
(***************************************************************************)

C10_InvalidConfigRejected ==
    Concurrency <= 0 => FanoutFetchErr = "InvalidConfig" /\ spawned = 0

(***************************************************************************)
(* C11                                                                     *)
(***************************************************************************)

\* C11: once the context is done, the fan-in goroutine and the receiving consumer
\* alone bring out to its closure: it is closed even in the behaviours where no
\* worker and no worker's timer ever takes another step.
C11_ClosureNeedsNoWorker == ctxDone ~> outClosed

\* C11 witness: out was closed by cancellation while no worker had got beyond its
\* fetch.
C11_Witness ==
    /\ N >= 2
    /\ outClosed
    /\ returnedBy = "ctxDone"
    /\ \A w \in Workers : wpc[w] \in {"start", "fetch"}

(***************************************************************************)
(* C18                                                                     *)
(***************************************************************************)

\* C18 (as claimed): when every worker's fetch returned its data before the context
\* was done, the closed out has delivered exactly one "Data from <url>" per url.
C18_AllFetchedAllDelivered ==
    (outClosed /\ \A w \in Workers : fetchedBeforeCancel[w]) =>
        /\ Len(delivered) = N
        /\ DeliveredWorkers = Workers
        /\ \A k \in DOMAIN delivered :
              delivered[k].data = FetchData(urls[delivered[k].w])

(***************************************************************************)
(* C12                                                                     *)
(***************************************************************************)

\* C12: in every WaitGroup demo each goroutine is started after its Add(1), calls
\* Done once, as it ends; the counter is never negative and counts the Add(1) not yet
\* matched by a Done; wg.Wait() has returned only with the counter at 0 and every
\* goroutine of the demo started and ended.
C12_WaitGroupBalanced ==
    demo \in WgDemos =>
        /\ wgCounter >= 0
        /\ Len(wgW) <= wgAdds
        /\ \A k \in DOMAIN wgW :
              /\ wgW[k].dones <= 1
              /\ (wgW[k].pc = "done" <=> wgW[k].dones = 1)
        /\ wgCounter = wgAdds - Cardinality({k \in DOMAIN wgW : wgW[k].dones >= 1})
        /\ (wgMainPc = "done" =>
              /\ wgCounter = 0
              /\ Len(wgW) = WorkerLoopBound(demo)
              /\ \A k \in DOMAIN wgW : wgW[k].pc = "done")

\* C12 witness: WgProcessMultipleFileExample has printed its last line after three
\* Add(1) and three Done.
C12_Witness ==
    /\ demo = "WgProcessMultipleFileExample"
    /\ wgMainPc = "done"
    /\ wgAdds = NumFiles
    /\ \A k \in DOMAIN wgW : wgW[k].dones = 1

(***************************************************************************)
(* C13                                                                     *)
(***************************************************************************)

\* C13: in GoroutineswithChannelsAndWaitGroup every job sent is in exactly one place
\* (the channel, one worker, or finished), is received by at most one worker and
\* finished at most once, by the worker that received it; "All jobs done" is printed
\* only when each of the 5 jobs has been finished once.
C13_EachJobOnce ==
    demo = "GoroutineswithChannelsAndWaitGroup" =>
        /\ \A j \in 1..NumJobs :
              /\ Len(takenBy[j]) <= 1
              /\ finishedBy[j] \in {<<>>, takenBy[j]}
              /\ (j > jobsSent => takenBy[j] = <<>> /\ ~JobInBuf(j))
              /\ (j <= jobsSent =>
                    /\ JobInBuf(j) <=> takenBy[j] = <<>>
                    /\ JobAtWorker(j) <=> (takenBy[j] # <<>> /\ finishedBy[j] = <<>>))
        /\ Len(jobsBuf) = Cardinality({j \in 1..NumJobs : JobInBuf(j)})
        /\ (wgMainPc = "done" => \A j \in 1..NumJobs : Len(finishedBy[j]) = 1)

\* C13 witness: "All jobs done" is printed and each of the three workers has finished
\* at least one job.
C13_Witness ==
    /\ demo = "GoroutineswithChannelsAndWaitGroup"
    /\ wgMainPc = "done"
    /\ \A k \in 1..NumWorkers : \E j \in 1..NumJobs : finishedBy[j] = <<k>>

(***************************************************************************)
(* C14                                                                     *)
(***************************************************************************)

\* C14: in GoroutineswithChannelsAndWaitGroup at most numWorkers jobs are being
\* processed at any moment.
C14_AtMostNumWorkersInProcess ==
    demo = "GoroutineswithChannelsAndWaitGroup" => Cardinality(InProcess) <= NumWorkers

\* C14 witness: numWorkers jobs are being processed at once.
C14_Witness ==
    /\ demo = "GoroutineswithChannelsAndWaitGroup"
    /\ Cardinality(InProcess) = NumWorkers

(***************************************************************************)
(* C15                                                                     *)
(***************************************************************************)

\* C15: GoroutineswithChannelsAndWaitGroup terminates: the producer always finds
\* room in the channel for its next job, and in the end the channel is drained, every
\* worker has left its range loop and called Done, and wg.Wait() has returned.
C15_JobsDemoTerminates ==
    /\ [](demo = "GoroutineswithChannelsAndWaitGroup" /\ wgMainPc = "produce"
            => Len(jobsBuf) < JobsCap)
    /\ (demo = "GoroutineswithChannelsAndWaitGroup") ~>
          (/\ wgMainPc = "done"
           /\ jobsBuf = <<>>
           /\ \A k \in DOMAIN wgW : wgW[k].pc = "done")

\* C15 witness: the channel is closed and drained, one worker has left its range loop
\* and wg.Wait() is still waiting for another that is finishing a job.
C15_Witness ==
    /\ demo = "GoroutineswithChannelsAndWaitGroup"
    /\ wgMainPc = "wait"
    /\ jobsClosed
    /\ jobsBuf = <<>>
    /\ \E k \in DOMAIN wgW : wgW[k].pc = "done"
    /\ \E k \in DOMAIN wgW : wgW[k].pc = "work"

(***************************************************************************)
(* C16                                                                     *)
(***************************************************************************)

\* C16: once the context of CancelableWaitGroupPattern is cancelled, wg_do_work sees
\* it, calls Done and returns, and wg.Wait() returns; once the context of
\* ContextCancellationExample is done, cancel_dowork sees it and returns; a polling
\* worker that has seen ctx.Done() starts no further round of work.
C16_PollingWorkerStops ==
    /\ (demo = "CancelableWaitGroupPattern" /\ wgCtxDone) ~>
          (wgMainPc = "done" /\ Len(wgW) = 1 /\ wgW[1].pc = "done" /\ wgW[1].observed)
    /\ (demo = "CancelableWaitGroupPattern") ~> wgCtxDone
    /\ (demo = "ContextCancellationExample" /\ wgCtxDone) ~>
          (Len(wgW) = 1 /\ wgW[1].pc = "done" /\ wgW[1].observed)
    /\ [][\A k \in DOMAIN wgW : wgW[k].observed =>
            /\ wgW'[k].iters = wgW[k].iters
            /\ wgW'[k].pc \notin {"poll", "sleeping"}]_vars

\* C16 witness: "::: Done :::" is reached after wg_do_work had done some rounds of
\* work before it saw the cancellation.
C16_Witness ==
    /\ demo = "CancelableWaitGroupPattern"
    /\ wgMainPc = "done"
    /\ wgW[1].iters >= 1
    /\ wgW[1].observed

(***************************************************************************)
(* C17                                                                     *)
(***************************************************************************)

\* C17: a call of fetch_data or fan_in_out_fetch that has returned gave either its
\* data (non-empty) with a nil error, or "" with the error of its context, the second
\* only with the context done (so never with a context that is not cancelled);
\* HTTPHandlerSample has written nothing before fetch_data returned and exactly one
\* response after it: the error response if fetch_data failed, the data otherwise.
C17_OneOutcomeOneResponse ==
    \A c \in DOMAIN calls :
        /\ calls[c].pc \in {"returned", "responded"} =>
              /\ \/ /\ calls[c].err = "nil"
                    /\ calls[c].data # ""
                    /\ calls[c].data = FetchResult(calls[c].fn, calls[c].url)
                 \/ /\ calls[c].err \in {"Canceled", "DeadlineExceeded"}
                    /\ calls[c].err = calls[c].ctxErr
                    /\ calls[c].data = ""
              /\ (calls[c].err # "nil" => calls[c].ctxDone)
        /\ calls[c].pc # "responded" => calls[c].responses = <<>>
        /\ calls[c].pc = "responded" =>
              calls[c].responses =
                  <<IF calls[c].err # "nil" THEN ErrorResponse
                                            ELSE DataResponse(calls[c].data)>>

\* C17 witness: one request got the error response, and a fan_in_out_fetch returned
\* its data although its context was done.
C17_Witness ==
    /\ \E c \in DOMAIN calls :
          /\ calls[c].fn = "fetch_data"
          /\ calls[c].pc = "responded"
          /\ calls[c].responses = <<ErrorResponse>>
    /\ \E c \in DOMAIN calls :
          /\ calls[c].fn = "fan_in_out_fetch"
          /\ calls[c].pc = "returned"
          /\ calls[c].ctxDone
          /\ calls[c].err = "nil"

(***************************************************************************)
(* C19                                                                     *)
(***************************************************************************)

\* C19 (as claimed): once verifyPassword has reported the password invalid, Login
\* calls neither TokenGenerator nor UpdateAllTokens, and the only response it writes
\* is the error response.
C19_NoTokensOnInvalidPassword ==
    (auth.handler = "Login" /\ auth.verified = "invalid") =>
        /\ auth.tokenCalls = 0
        /\ auth.updateCalls = 0
        /\ auth.responses = <<Response(500, "Login or Password is Incorrect")>>

(***************************************************************************)
(* C20                                                                     *)
(***************************************************************************)

\* C20 (as claimed): once the body failed to bind, validation failed, or the email
\* or the phone was found to exist, SignUp does not call InsertOne, and when it has
\* ended it has written exactly one response.
C20_NoInsertAfterFailedCheck ==
    (auth.handler = "SignUp" /\ auth.failed # {}) =>
        /\ auth.insertCalls = 0
        /\ (auth.pc = "done" /\ ~auth.panicked => Len(auth.responses) = 1)

====
